---- MODULE Spec2Model ----
(***************************************************************************)
(* Model of static_upnp/upnp_reciever.py: the SSDP request parser, the     *)
(* template resolution (create_fmt), and the UPnPServiceResponder with its *)
(* receiver process (socket_handler), scheduler process (schedule_handler),*)
(* dispatcher loop (run) and shutdown.                                     *)
(*                                                                         *)
(* Byte strings are sequences of one-character strings.                    *)
(***************************************************************************)
EXTENDS Integers, Sequences, FiniteSets, TLC

(***************************************************************************)
(* Byte-string helpers: the bytes methods the parser uses.                 *)
(***************************************************************************)

\* bytes.startswith(p)
StartsWith(s, p) ==
    /\ Len(p) <= Len(s)
    /\ SubSeq(s, 1, Len(p)) = p

\* index of the first occurrence of byte c in s, 0 when there is none
RECURSIVE FindFrom(_, _, _)
FindFrom(s, c, i) ==
    IF i > Len(s) THEN 0
    ELSE IF s[i] = c THEN i
    ELSE FindFrom(s, c, i + 1)

Find(s, c) == FindFrom(s, c, 1)

\* bytes.replace(c, b""): every occurrence of byte c removed
RECURSIVE Remove(_, _)
Remove(s, c) ==
    IF s = <<>> THEN <<>>
    ELSE IF Head(s) = c THEN Remove(Tail(s), c)
    ELSE <<Head(s)>> \o Remove(Tail(s), c)

\* bytes.replace(c, r): every occurrence of byte c replaced by the bytes r
RECURSIVE Replace(_, _, _)
Replace(s, c, r) ==
    IF s = <<>> THEN <<>>
    ELSE IF Head(s) = c THEN r \o Replace(Tail(s), c, r)
    ELSE <<Head(s)>> \o Replace(Tail(s), c, r)

\* bytes.split(c, 1): a list of one part (no c in s) or two parts
SplitOnce(s, c) ==
    LET i == Find(s, c)
    IN  IF i = 0 THEN <<s>>
        ELSE <<SubSeq(s, 1, i - 1), SubSeq(s, i + 1, Len(s))>>

\* bytes.split(c): the list of all parts between occurrences of c
RECURSIVE SplitAll(_, _)
SplitAll(s, c) ==
    LET i == Find(s, c)
    IN  IF i = 0 THEN <<s>>
        ELSE <<SubSeq(s, 1, i - 1)>> \o SplitAll(SubSeq(s, i + 1, Len(s)), c)

\* the ASCII whitespace bytes.strip() removes (vertical tab left out: it has
\* no escape here and occurs in no datagram of the model)
Whitespace == {" ", "\t", "\n", "\r", "\f"}

RECURSIVE LStrip(_)
LStrip(s) ==
    IF s # <<>> /\ Head(s) \in Whitespace THEN LStrip(Tail(s)) ELSE s

RECURSIVE RStrip(_)
RStrip(s) ==
    IF s # <<>> /\ s[Len(s)] \in Whitespace
    THEN RStrip(SubSeq(s, 1, Len(s) - 1))
    ELSE s

\* bytes.strip()
Strip(s) == RStrip(LStrip(s))

(***************************************************************************)
(* Protocol tokens.                                                        *)
(***************************************************************************)
M_SEARCH == <<"M", "-", "S", "E", "A", "R", "C", "H">>
NOTIFY   == <<"N", "O", "T", "I", "F", "Y">>
ST       == <<"S", "T">>
SSDP_PREFIX == <<"s", "s", "d", "p", ":">>
SSDP_ALIVE   == SSDP_PREFIX \o <<"a", "l", "i", "v", "e">>
SSDP_GOODBYE == SSDP_PREFIX \o <<"g", "o", "o", "d", "b", "y", "e">>

(***************************************************************************)
(* parse_search_request / parse_request                                    *)
(*                                                                         *)
(* A parse result is a record with field kind:                             *)
(*   "None"        the handler returned None                               *)
(*   "ValueError"  a tuple unpacking failed: the exception leaves the      *)
(*                 function (it has no try/except)                         *)
(*   "Request"     the AttributeDict, fields METHOD PATH VERSION HEADERS    *)
(*                 REMOTE                                                  *)
(* HEADERS is the defaultdict(list): a function from header name to the    *)
(* list of its values; a name outside its domain reads as the empty list.  *)
(***************************************************************************)
ParseNone  == [kind |-> "None"]
ParseError == [kind |-> "ValueError"]

\* defaultdict(list).__getitem__ as the code reads it
HeadersGet(H, name) == IF name \in DOMAIN H THEN H[name] ELSE <<>>

\* mutant of HeadersAppend: a repeated header keeps its last value only
HeadersAppend_Overwrites(H, header, value) ==
    [n \in (DOMAIN H) \cup {header} |->
        IF n = header THEN <<value>> ELSE H[n]]

\* result.HEADERS[header].append(value)
HeadersAppend(H, header, value) ==
    [n \in (DOMAIN H) \cup {header} |->
        IF n = header THEN HeadersGet(H, n) \o <<value>> ELSE H[n]]

\* the loop over the header lines (lines 55-59); acc is [err, H]
RECURSIVE ParseHeaderLines(_, _)
ParseHeaderLines(lines, H) ==
    IF lines = <<>> THEN [err |-> FALSE, H |-> H]
    ELSE LET line == Strip(Head(lines))
         IN  IF Len(line) > 0
             THEN LET hv == SplitOnce(line, ":")
                  IN  IF Len(hv) # 2
                      THEN [err |-> TRUE, H |-> H]
                      ELSE ParseHeaderLines(Tail(lines),
                               HeadersAppend(H, hv[1], Strip(hv[2])))
             ELSE ParseHeaderLines(Tail(lines), H)

parse_search_request(request) ==
    LET data   == request.data
        sender == request.sender
    IN  IF ~(StartsWith(data, M_SEARCH) \/ StartsWith(data, NOTIFY))
        THEN ParseNone
        ELSE LET parts == SplitOnce(Remove(data, "\r"), "\n")
             IN  IF Len(parts) # 2 THEN ParseError
                 ELSE LET http    == parts[1]
                          headers == parts[2]
                          mpv     == SplitAll(http, " ")
                      IN  IF Len(mpv) # 3 THEN ParseError
                          ELSE LET hs == ParseHeaderLines(SplitAll(headers, "\n"), <<>>)
                               IN  IF hs.err THEN ParseError
                                   ELSE [kind    |-> "Request",
                                         METHOD  |-> mpv[1],
                                         PATH    |-> mpv[2],
                                         VERSION |-> mpv[3],
                                         HEADERS |-> hs.H,
                                         REMOTE  |-> sender]

\* request_handlers = [parse_search_request]: the first result that is not
\* None wins; an exception of a handler leaves parse_request
parse_request(request) == parse_search_request(request)

(***************************************************************************)
(* Service model.  A dict is a sequence of [k, v] entries in insertion     *)
(* order.  A value v is [t |-> "str", s |-> text, n |-> 0] for a str,      *)
(* [t |-> "int", ...n] for an int and [t |-> "call", ...] for a callable   *)
(* (a zero-argument producer).  A text (a str or a template) is a sequence *)
(* of characters and of replacement fields "{key}".                        *)
(***************************************************************************)
StrVal(s) == [t |-> "str", s |-> s, n |-> 0]
IntVal(n) == [t |-> "int", s |-> <<>>, n |-> n]
CallVal   == [t |-> "call", s |-> <<>>, n |-> 0]

\* the replacement fields of the model's templates and the key each names
FieldKey ==
    ("{uuid}" :> "uuid") @@ ("{bootid}" :> "bootid") @@ ("{st}" :> "st")
    @@ ("{usn}" :> "usn") @@ ("{nts}" :> "nts")

DictHas(d, k) == \E i \in 1..Len(d) : d[i].k = k

\* d[k]
DictGet(d, k) == d[CHOOSE i \in 1..Len(d) : d[i].k = k].v

\* d[k] = v: an existing key keeps its place, a new key goes last
DictSet(d, k, v) ==
    IF DictHas(d, k)
    THEN [i \in 1..Len(d) |-> IF d[i].k = k THEN [k |-> k, v |-> v] ELSE d[i]]
    ELSE Append(d, [k |-> k, v |-> v])

Digit == <<"0", "1", "2", "3", "4", "5", "6", "7", "8", "9">>

\* str(n) of a natural number
RECURSIVE Digits(_)
Digits(n) ==
    IF n < 10 THEN <<Digit[n + 1]>>
    ELSE Digits(n \div 10) \o <<Digit[(n % 10) + 1]>>

\* str(b) of a bytes object b, as str.format renders it: b'...'
BytesRepr(b) == <<"b", "'">> \o b \o <<"'">>

\* what str.format puts in place of a replacement field
ToStr(v) ==
    CASE v.t = "str"   -> v.s
      [] v.t = "int"   -> Digits(v.n)
      [] v.t = "bytes" -> BytesRepr(v.s)

\* text.format(**fmt): each replacement field replaced by the value of its
\* key in fmt, other characters kept.  (A field whose key fmt lacks raises
\* KeyError; the configurations below name only keys they define.)
RECURSIVE Format(_, _)
Format(text, fmt) ==
    IF text = <<>> THEN <<>>
    ELSE (IF Head(text) \in DOMAIN FieldKey
          THEN ToStr(DictGet(fmt, FieldKey[Head(text)]))
          ELSE <<Head(text)>>)
         \o Format(Tail(text), fmt)

\* mutant of EvalParams: the value a producer returned is kept and handed
\* out again, the producer is not invoked
RECURSIVE EvalParams_Cached(_, _, _)
EvalParams_Cached(params, i, acc) ==
    IF i > Len(params) THEN acc
    ELSE LET e == params[i]
         IN  EvalParams_Cached(params, i + 1,
                 [fmt |-> DictSet(acc.fmt, e.k,
                                  IF e.v.t = "call" THEN IntVal(1) ELSE e.v),
                  cnt |-> acc.cnt])

\* lines 145-149: every param copied, a callable param invoked.  The
\* producer of the model is a counter: each call returns the next number.
\* acc is [fmt, cnt].
RECURSIVE EvalParams(_, _, _)
EvalParams(params, i, acc) ==
    IF i > Len(params) THEN acc
    ELSE LET e == params[i]
         IN  IF e.v.t = "call"
             THEN EvalParams(params, i + 1,
                      [fmt |-> DictSet(acc.fmt, e.k, IntVal(acc.cnt + 1)),
                       cnt |-> acc.cnt + 1])
             ELSE EvalParams(params, i + 1,
                      [fmt |-> DictSet(acc.fmt, e.k, e.v), cnt |-> acc.cnt])

\* mutant of Overlay: a key the params have keeps the param's value
RECURSIVE Overlay_ParamsWin(_, _, _)
Overlay_ParamsWin(fmt, service, i) ==
    IF i > Len(service) THEN fmt
    ELSE Overlay_ParamsWin(
             IF DictHas(fmt, service[i].k) THEN fmt
             ELSE DictSet(fmt, service[i].k, service[i].v),
             service, i + 1)

\* lines 151-152: every key of the service laid over the params
RECURSIVE Overlay(_, _, _)
Overlay(fmt, service, i) ==
    IF i > Len(service) THEN fmt
    ELSE Overlay(DictSet(fmt, service[i].k, service[i].v), service, i + 1)

\* lines 154-156: one pass over the keys in insertion order; each str value
\* is formatted against the mapping as it stands at that moment
RECURSIVE FormatPass(_, _)
FormatPass(fmt, i) ==
    IF i > Len(fmt) THEN fmt
    ELSE IF fmt[i].v.t = "str"
         THEN FormatPass(
                  [fmt EXCEPT ![i].v = StrVal(Format(fmt[i].v.s, fmt))], i + 1)
         ELSE FormatPass(fmt, i + 1)

\* create_fmt(params, service) run with the producer's counter at cnt:
\* [fmt |-> the mapping returned, cnt |-> the counter afterwards]
create_fmt(params, service, cnt) ==
    LET p == EvalParams(params, 1, [fmt |-> <<>>, cnt |-> cnt])
    IN  [fmt |-> FormatPass(Overlay(p.fmt, service, 1), 1), cnt |-> p.cnt]

\* text.replace("\n", "\r\n").encode("ascii")
Encode(text) == Replace(text, "\n", <<"\r", "\n">>)

(***************************************************************************)
(* Bounds of the model and constants of the program.                       *)
(***************************************************************************)
\* datagrams the receiver takes from the socket in one run
MaxRecv == 2
\* the clock stops here: past the settle delay and one announce period
MaxClock == 304
\* the scheduler process is at most this late for a wake-up or a due job
MaxLate == 1

\* time.sleep(2) of schedule_handler
SettleDelay == 2
\* sch.every(300).seconds
AnnouncePeriod == 300
\* the defaults of __init__: the multicast group
address == "239.255.255.250"
port == 1900

Group == <<address, port>>

(***************************************************************************)
(* Inputs: the datagrams the socket may deliver and the configurations the *)
(* responder may be constructed with.                                      *)
(***************************************************************************)
SP    == <<" ">>
CRLF  == <<"\r", "\n">>
LF    == <<"\n">>
HTTP11 == <<"H", "T", "T", "P", "/", "1", ".", "1">>
URN_A == <<"u", "r", "n", ":", "a">>
URN_B == <<"u", "r", "n", ":", "b">>
URN_Z == <<"u", "r", "n", ":", "z">>
SSDP_ALL == SSDP_PREFIX \o <<"a", "l", "l">>
MX    == <<"M", "X">>

RequestLine(verb, eol) == verb \o SP \o <<"*">> \o SP \o HTTP11 \o eol
HeaderLine(name, value, eol) == name \o <<":", " ">> \o value \o eol

Peer1 == <<"192.168.1.20", 50001>>
Peer2 == <<"192.168.1.21", 50002>>

Dgram(data, sender) == [data |-> data, sender |-> sender]

\* SEARCH, one ST equal to a configured st
SearchA == RequestLine(M_SEARCH, CRLF) \o HeaderLine(ST, URN_A, CRLF) \o CRLF
\* SEARCH, the generic-discovery token
SearchAll == RequestLine(M_SEARCH, CRLF) \o HeaderLine(MX, <<"1">>, CRLF)
             \o HeaderLine(ST, SSDP_ALL, CRLF) \o CRLF
\* SEARCH, the ST header repeated
SearchMulti == RequestLine(M_SEARCH, CRLF) \o HeaderLine(ST, URN_B, CRLF)
               \o HeaderLine(ST, SSDP_ALL, CRLF) \o CRLF
\* SEARCH, an ST no service has, bare line feeds
SearchZ == RequestLine(M_SEARCH, LF) \o HeaderLine(ST, URN_Z, LF)
\* SEARCH without ST
SearchNoST == RequestLine(M_SEARCH, CRLF) \o HeaderLine(MX, <<"1">>, CRLF) \o CRLF
\* ANNOUNCE, carrying an ST header a service would match
NotifyA == RequestLine(NOTIFY, CRLF) \o HeaderLine(ST, URN_A, CRLF) \o CRLF
\* not a request: a search response of some other device
Garbage == HTTP11 \o SP \o <<"2", "0", "0">> \o SP \o <<"O", "K">> \o CRLF
           \o HeaderLine(ST, URN_A, CRLF) \o CRLF
\* recognized verb, request line of two tokens
BadTokens == M_SEARCH \o SP \o <<"*">> \o CRLF \o HeaderLine(ST, URN_A, CRLF)
\* recognized verb, no line break
NoLineBreak == M_SEARCH \o SP \o <<"*">> \o SP \o HTTP11
\* recognized verb, a header line without colon
NoColon == RequestLine(M_SEARCH, CRLF) \o ST \o CRLF

\* The state names the bytes of a datagram; Bytes gives them.
Bytes(name) ==
    CASE name = "SearchA" -> SearchA
      [] name = "SearchAll" -> SearchAll
      [] name = "SearchMulti" -> SearchMulti
      [] name = "SearchZ" -> SearchZ
      [] name = "SearchNoST" -> SearchNoST
      [] name = "NotifyA" -> NotifyA
      [] name = "Garbage" -> Garbage
      [] name = "BadTokens" -> BadTokens
      [] name = "NoLineBreak" -> NoLineBreak
      [] name = "NoColon" -> NoColon

\* what recvfrom returned, as parse_request reads it: (data, sender)
Wire(rec) == Dgram(Bytes(rec.data), rec.sender)

Datagrams ==
    { Dgram("SearchA", Peer2), Dgram("SearchAll", Peer1),
      Dgram("SearchMulti", Peer2), Dgram("SearchZ", Peer1),
      Dgram("SearchNoST", Peer2), Dgram("NotifyA", Peer1),
      Dgram("Garbage", Peer2), Dgram("BadTokens", Peer1),
      Dgram("NoLineBreak", Peer2), Dgram("NoColon", Peer1) }

\* the datagrams of the specification that follows the clock
FewDatagrams == { Dgram("SearchA", Peer1) }

Entry(k, v) == [k |-> k, v |-> v]

TemplateNOTIFY ==
    <<"N", "T", "S", ":", "{nts}", "\n", "N", "T", ":", "{st}", "\n",
      "U", "S", "N", ":", "{usn}", "\n", "\n">>
TemplateOK ==
    <<"2", "0", "0", "\n", "S", "T", ":", "{st}", "\n",
      "U", "S", "N", ":", "{usn}", "\n", "B", ":", "{bootid}", "\n", "\n">>

ParamsOf(uuid) ==
    << Entry("uuid", StrVal(uuid)),
       Entry("bootid", CallVal),
       Entry("usn", StrVal(<<"{uuid}", ":", ":", "{st}">>)) >>

Descriptor(params, svcs) ==
    [params |-> params, services |-> svcs,
     NOTIFY |-> TemplateNOTIFY, OK |-> TemplateOK]

\* one descriptor, one service
DescA == Descriptor(ParamsOf(<<"u", "1">>), << <<Entry("st", StrVal(URN_A))>> >>)
\* one descriptor, two services, the second overriding the param uuid
DescAB ==
    Descriptor(ParamsOf(<<"u", "2">>),
               << <<Entry("st", StrVal(URN_A))>>,
                  <<Entry("st", StrVal(URN_B)), Entry("uuid", StrVal(<<"u", "3">>))>> >>)
\* one descriptor whose service's st is itself a template over a param
DescT ==
    Descriptor(ParamsOf(<<"a">>),
               << <<Entry("st", StrVal(<<"u", "r", "n", ":", "{uuid}">>))>> >>)

\* services=None, the default of __init__
ServicesNone == [none |-> TRUE, descs |-> <<>>]
ServicesOf(descs) == [none |-> FALSE, descs |-> descs]

\* the configurations, by name
Configurations == { "none", "one service", "three services" }

ServicesFor(c) ==
    CASE c = "none" -> ServicesNone
      [] c = "one service" -> ServicesOf(<<DescA>>)
      [] c = "three services" -> ServicesOf(<<DescAB, DescT>>)

\* the number of Service entries over all descriptors
RECURSIVE CountServices(_)
CountServices(descs) ==
    IF descs = <<>> THEN 0
    ELSE Len(Head(descs).services) + CountServices(Tail(descs))

(***************************************************************************)
(* do_notify, respond_ok_static and send, as the list of sendto calls one  *)
(* complete pass makes, in order.  A call is                               *)
(*   [dest, d, s, st, data, cnt]                                           *)
(* d, s: the descriptor and the service it is made for; st: the ST value   *)
(* answered (empty for an announcement); cnt: the producer's counter after *)
(* the create_fmt of that service.                                         *)
(***************************************************************************)

\* the (descriptor, service) index pairs in the order of the nested loops
RECURSIVE ServicePairs(_, _, _)
ServicePairs(descs, d, s) ==
    IF d > Len(descs) THEN <<>>
    ELSE IF s > Len(descs[d].services) THEN ServicePairs(descs, d + 1, 1)
    ELSE << <<d, s>> >> \o ServicePairs(descs, d, s + 1)

\* mutant of send: the response goes to the multicast group
send_ToGroup(d, response_data, REQUEST) ==
    [dest |-> Group, d |-> d, data |-> response_data]

\* send(service_descriptor, response_data, REQUEST): sock.sendto(data, REQUEST)
send(d, response_data, REQUEST) ==
    [dest |-> REQUEST, d |-> d, data |-> response_data]

\* lines 113-118 from the pair at the head of pairs on
RECURSIVE NotifyFrom(_, _, _, _)
NotifyFrom(descs, pairs, nts, cnt) ==
    IF pairs = <<>> THEN [sends |-> <<>>, cnt |-> cnt]
    ELSE LET d    == Head(pairs)[1]
             s    == Head(pairs)[2]
             desc == descs[d]
             f    == create_fmt(desc.params, desc.services[s], cnt)
             fmt  == DictSet(f.fmt, "nts", [t |-> "bytes", s |-> nts, n |-> 0])
             data == Encode(Format(desc.NOTIFY, fmt))
             call == [dest |-> Group, d |-> d, s |-> s, st |-> <<>>,
                      data |-> data, cnt |-> f.cnt]
             rest == NotifyFrom(descs, Tail(pairs), nts, f.cnt)
         IN  [sends |-> <<call>> \o rest.sends, cnt |-> rest.cnt]

\* mutant of do_notify: the pass ends after the first service
do_notify_FirstOnly(descs, nts, cnt) ==
    LET pairs == ServicePairs(descs, 1, 1)
    IN  NotifyFrom(descs, IF pairs = <<>> THEN pairs ELSE <<Head(pairs)>>, nts, cnt)

do_notify(descs, nts, cnt) == NotifyFrom(descs, ServicePairs(descs, 1, 1), nts, cnt)

\* mutant of Matches: the generic-discovery prefix is not looked at
Matches_ExactOnly(fmt, request_type) ==
    ToStr(DictGet(fmt, "st")) = request_type

\* lines 166-168: the ST value request_type selects the service resolved in fmt
Matches(fmt, request_type) ==
    \/ StartsWith(request_type, SSDP_PREFIX)
    \/ ToStr(DictGet(fmt, "st")) = request_type

\* lines 162-172 from the pair at the head of pairs on
RECURSIVE RespondFrom(_, _, _, _)
RespondFrom(descs, pairs, request, cnt) ==
    IF pairs = <<>> THEN [sends |-> <<>>, cnt |-> cnt]
    ELSE LET d    == Head(pairs)[1]
             s    == Head(pairs)[2]
             desc == descs[d]
             f    == create_fmt(desc.params, desc.services[s], cnt)
             hit  == SelectSeq(HeadersGet(request.HEADERS, ST),
                               LAMBDA rt : Matches(f.fmt, rt))
             data == Encode(Format(desc.OK, f.fmt))
             calls == [i \in 1..Len(hit) |->
                          LET c == send(d, data, request.REMOTE)
                          IN  [dest |-> c.dest, d |-> c.d, s |-> s, st |-> hit[i],
                               data |-> c.data, cnt |-> f.cnt]]
             rest == RespondFrom(descs, Tail(pairs), request, f.cnt)
         IN  [sends |-> calls \o rest.sends, cnt |-> rest.cnt]

\* mutant of respond_ok_static: the loops end at the first response
respond_ok_static_FirstOnly(descs, request, cnt) ==
    LET p == RespondFrom(descs, ServicePairs(descs, 1, 1), request, cnt)
    IN  IF p.sends = <<>> THEN p
        ELSE [sends |-> <<p.sends[1]>>, cnt |-> p.sends[1].cnt]

respond_ok_static(descs, request, cnt) ==
    RespondFrom(descs, ServicePairs(descs, 1, 1), request, cnt)

\* respond_ok: nothing when services is None
respond_ok(svc, request, cnt) ==
    IF svc.none THEN [sends |-> <<>>, cnt |-> cnt]
    ELSE respond_ok_static(svc.descs, request, cnt)

(***************************************************************************)
(* sendto may raise (OSError).  No caller catches it, so the exception     *)
(* ends the pass at the failing call.  Of a pass p with calls p.sends, n   *)
(* calls return and, when n < Len(p.sends), call n + 1 raises.             *)
(***************************************************************************)
Raises(p, n) == n < Len(p.sends)

\* the entries the pass adds to the log of sendto calls
Logged(p, n, kind, req, now) ==
    [i \in 1..(IF Raises(p, n) THEN n + 1 ELSE n) |->
        [kind |-> kind, dest |-> p.sends[i].dest, d |-> p.sends[i].d,
         s |-> p.sends[i].s, st |-> p.sends[i].st,
         req |-> req, ok |-> (i <= n), at |-> now]]

\* the producer's counter when the pass ends
CounterAfter(p, n) == IF Raises(p, n) THEN p.sends[n + 1].cnt ELSE p.cnt

(***************************************************************************)
(* State.                                                                  *)
(***************************************************************************)
VARIABLES
    arg,        \* the arguments of the function applied on its own, if any
    ret,        \* what that function returned
    variant,    \* the class constructed
    uid,        \* os.getuid() of the process, 0 for root
    init_pc,    \* where __init__ stands
    startup,    \* history: the transport acquisition steps and the starts of
                \* the processes, in order, each with whether it succeeded
    config,     \* which of the Configurations self.services was constructed with
    running,    \* self.running: Value(c_int), 1 or 0; -1 before it is created
    queue,      \* self.queue: the datagrams put and not yet got, oldest first
    clock,      \* the time, in seconds since the scheduler process started
    sched_pc,   \* where schedule_handler stands
    next_run,   \* next_run of the job of sch.every(300).seconds
    recv_pc,    \* where socket_handler stands
    run_pc,     \* where run stands
    shut_pc,    \* where shutdown stands
    cnt,        \* the producer's counter, one copy per process
    sent,       \* history: every sendto call, in order
    received,   \* history: every datagram recvfrom returned, in order
    handled     \* history: every datagram run took off the queue, and how
                \* its handling ended

\* self.services, fixed at construction
services == ServicesFor(config)

\* what __init__ and the acquisition steps write
construction == <<variant, uid, init_pc, startup>>

\* the function applied on its own
call == <<arg, ret>>

vars == <<arg, ret, variant, uid, init_pc, startup, config, running, queue, clock,
          sched_pc, next_run, recv_pc, run_pc, shut_pc, cnt, sent, received,
          handled>>

Plain    == "UPnPServiceResponder"
Spoofing == "SpoofingUPnPServiceResponder"

\* an entry of startup
Step(step, ok) == [step |-> step, ok |-> ok]

\* __init__ has returned: running.value = 1, the queue empty, both processes
\* started; run and shutdown not yet called
Init ==
    /\ arg = <<>>
    /\ ret = <<>>
    /\ variant = Plain
    /\ uid = 1000
    /\ init_pc = "done"
    /\ startup = <<Step("bind", TRUE), Step("start_reciever", TRUE),
                   Step("start_schedule", TRUE)>>
    /\ config \in Configurations
    /\ running = 1
    /\ queue = <<>>
    /\ clock = 0
    /\ sched_pc = "sleep"
    /\ next_run = 0
    /\ recv_pc = "join"
    /\ run_pc = "while"
    /\ shut_pc = "idle"
    /\ cnt = [main |-> 0, sched |-> 0]
    /\ sent = <<>>
    /\ received = <<>>
    /\ handled = <<>>

\* a process that has ended: returned, or left by an uncaught exception
Ended(pc) == pc \in {"done", "raised"}

(***************************************************************************)
(* Construction: __init__ of UPnPServiceResponder, which the spoofing      *)
(* class runs through super().__init__(...) before its own lines 193-196.  *)
(***************************************************************************)

\* nothing constructed yet: no Value, no process started
InitStart ==
    /\ arg = <<>>
    /\ ret = <<>>
    /\ \/ variant = Plain /\ uid = 1000
       \/ variant = Spoofing /\ uid \in {0, 1000}
    /\ init_pc = "setup_sockets"
    /\ startup = <<>>
    /\ config \in Configurations
    /\ running = -1
    /\ queue = <<>>
    /\ clock = 0
    /\ sched_pc = "unstarted"
    /\ next_run = 0
    /\ recv_pc = "unstarted"
    /\ run_pc = "while"
    /\ shut_pc = "idle"
    /\ cnt = [main |-> 0, sched |-> 0]
    /\ sent = <<>>
    /\ received = <<>>
    /\ handled = <<>>

\* line 85 with lines 94-98: the UDP socket is made and bound to the port;
\* bind may raise OSError, which leaves __init__
setup_sockets ==
    /\ init_pc = "setup_sockets"
    /\ variant = Plain
    /\ \E ok \in BOOLEAN :
          /\ init_pc' = IF ok THEN "start_reciever" ELSE "raised"
          /\ startup' = Append(startup, Step("bind", ok))
    /\ UNCHANGED <<call, variant, uid, config, running, queue, clock, sched_pc,
                   next_run, recv_pc, run_pc, shut_pc, cnt, sent, received,
                   handled>>

\* line 85 with lines 198-201, the override of the spoofing class.  Opening
\* a raw socket (lines 199-200) raises PermissionError without privilege
\* and may raise OSError with it.  Line 201 reads self.interface, which
\* __init__ assigns only at line 195, after super().__init__ has returned:
\* the read raises AttributeError whenever it is reached.
Spoofing_setup_sockets ==
    /\ init_pc = "setup_sockets"
    /\ variant = Spoofing
    /\ \E opened \in (IF uid = 0 THEN BOOLEAN ELSE {FALSE}) :
          startup' = IF opened
                     THEN startup \o <<Step("raw_socket", TRUE),
                                       Step("raw_bind", FALSE)>>
                     ELSE Append(startup, Step("raw_socket", FALSE))
    /\ init_pc' = "raised"
    /\ UNCHANGED <<call, variant, uid, config, running, queue, clock, sched_pc,
                   next_run, recv_pc, run_pc, shut_pc, cnt, sent, received,
                   handled>>

\* lines 87-90: the Value and the Queue are created and the receiver
\* process is started
InitStartReciever ==
    /\ init_pc = "start_reciever"
    /\ running' = 1
    /\ queue' = <<>>
    /\ recv_pc' = "join"
    /\ startup' = Append(startup, Step("start_reciever", TRUE))
    /\ init_pc' = "start_schedule"
    /\ UNCHANGED <<call, variant, uid, config, clock, sched_pc, next_run, run_pc,
                   shut_pc, cnt, sent, received, handled>>

\* lines 91-92: the scheduler process is started; __init__ of the plain
\* class returns, the spoofing class goes on to line 196
InitStartSchedule ==
    /\ init_pc = "start_schedule"
    /\ sched_pc' = "sleep"
    /\ startup' = Append(startup, Step("start_schedule", TRUE))
    /\ init_pc' = IF variant = Spoofing THEN "drop_privileges" ELSE "done"
    /\ UNCHANGED <<call, variant, uid, config, running, queue, clock, next_run,
                   recv_pc, run_pc, shut_pc, cnt, sent, received, handled>>

\* line 196 with lines 221-238: nothing when not root; else the ids are
\* looked up and set, any of which may raise.  Spoofing_setup_sockets never
\* returns, so no execution comes here and no specification below has this
\* step.
drop_privileges ==
    /\ init_pc = "drop_privileges"
    /\ IF uid # 0
       THEN init_pc' = "done" /\ UNCHANGED <<uid, startup>>
       ELSE \E ok \in BOOLEAN :
               /\ uid' = IF ok THEN 65534 ELSE uid
               /\ init_pc' = IF ok THEN "done" ELSE "raised"
               /\ startup' = Append(startup, Step("drop_privileges", ok))
    /\ UNCHANGED <<call, variant, config, running, queue, clock, sched_pc, next_run,
                   recv_pc, run_pc, shut_pc, cnt, sent, received, handled>>

(***************************************************************************)
(* Time.                                                                   *)
(***************************************************************************)
\* the deadline schedule_handler stands before, if any
SchedOverdue ==
    \/ sched_pc \in {"sleep", "notify"} /\ clock >= SettleDelay + MaxLate
    \/ sched_pc \in {"while", "pending"} /\ clock >= next_run + MaxLate

\* Only schedule_handler reads the time: the clock of the model runs while
\* that process does, from its start on.
Tick ==
    /\ clock < MaxClock
    /\ sched_pc # "unstarted"
    /\ ~Ended(sched_pc)
    /\ ~SchedOverdue
    /\ clock' = clock + 1
    /\ UNCHANGED <<call, construction, config, running, queue, sched_pc, next_run, recv_pc, run_pc,
                   shut_pc, cnt, sent, received, handled>>

\* the instant schedule_handler waits for: the end of time.sleep(2), then
\* the job's next_run
Deadline ==
    IF sched_pc \in {"sleep", "notify"} THEN SettleDelay ELSE next_run

\* Time told by the scheduler's wake-ups only: the clock moves on to the
\* instant the scheduler waits for, and the instants between are not told
\* apart.
Advance ==
    /\ sched_pc # "unstarted"
    /\ ~Ended(sched_pc)
    /\ clock < Deadline
    /\ Deadline <= MaxClock
    /\ clock' = Deadline
    /\ UNCHANGED <<call, construction, config, running, queue, sched_pc, next_run, recv_pc, run_pc,
                   shut_pc, cnt, sent, received, handled>>

(***************************************************************************)
(* schedule_handler, the scheduler process.                                *)
(***************************************************************************)

\* one do_notify pass of the scheduler process.  When it returns, the job
\* is due one period from now: sch.every(300).seconds.do(...) after the
\* first pass, the job's own rescheduling after a later one.
SchedNotify ==
    IF services.none
    THEN \* iterating None raises TypeError
         /\ sched_pc' = "raised"
         /\ UNCHANGED <<cnt, sent, next_run>>
    ELSE LET p == do_notify(services.descs, SSDP_ALIVE, cnt.sched)
         IN  \E n \in 0..Len(p.sends) :
                /\ sent' = sent \o Logged(p, n, "alive", 0, clock)
                /\ cnt' = [cnt EXCEPT !.sched = CounterAfter(p, n)]
                /\ IF Raises(p, n)
                   THEN sched_pc' = "raised" /\ UNCHANGED next_run
                   ELSE sched_pc' = "while" /\ next_run' = clock + AnnouncePeriod

\* line 102: time.sleep(2) returns once the delay has passed
SchedSleep ==
    /\ sched_pc = "sleep"
    /\ clock >= SettleDelay
    /\ sched_pc' = "notify"
    /\ UNCHANGED <<call, construction, config, running, queue, clock, next_run, recv_pc, run_pc,
                   shut_pc, cnt, sent, received, handled>>

\* lines 103-105: self.do_notify(b"ssdp:alive"), then the job is created
SchedFirstNotify ==
    /\ sched_pc = "notify"
    /\ SchedNotify
    /\ UNCHANGED <<call, construction, config, running, queue, clock, recv_pc, run_pc,
                   shut_pc, received, handled>>

\* line 107: while running.value
SchedWhile ==
    /\ sched_pc = "while"
    /\ sched_pc' = IF running # 0 THEN "pending" ELSE "done"
    /\ UNCHANGED <<call, construction, config, running, queue, clock, next_run, recv_pc, run_pc,
                   shut_pc, cnt, sent, received, handled>>

\* mutant of SchedRunPending: the job runs at every poll, due or not
SchedRunPending_NotDue ==
    /\ sched_pc = "pending"
    /\ SchedNotify
    /\ UNCHANGED <<call, construction, config, running, queue, clock, recv_pc, run_pc,
                   shut_pc, received, handled>>

\* lines 108-109: sch.run_pending() runs the job when it is due, then
\* time.sleep(0.1)
SchedRunPending ==
    /\ sched_pc = "pending"
    /\ IF clock >= next_run
       THEN SchedNotify
       ELSE /\ sched_pc' = "while"
            /\ UNCHANGED <<cnt, sent, next_run>>
    /\ UNCHANGED <<call, construction, config, running, queue, clock, recv_pc, run_pc,
                   shut_pc, received, handled>>

(***************************************************************************)
(* socket_handler, the receiver process.                                   *)
(***************************************************************************)

\* lines 121-123: the multicast group is joined; setsockopt may raise
RecvJoin ==
    /\ recv_pc = "join"
    /\ \E ok \in BOOLEAN :
          /\ recv_pc' = IF ok THEN "while" ELSE "raised"
          /\ startup' = Append(startup, Step("join", ok))
    /\ UNCHANGED <<call, variant, uid, init_pc, config, running, queue, clock,
                   sched_pc, next_run, run_pc, shut_pc, cnt, sent, received,
                   handled>>

\* line 124: while running.value
RecvWhile ==
    /\ recv_pc = "while"
    /\ recv_pc' = IF running # 0 THEN "recvfrom" ELSE "done"
    /\ UNCHANGED <<call, construction, config, running, queue, clock, sched_pc, next_run, run_pc,
                   shut_pc, cnt, sent, received, handled>>

\* mutant of RecvFrom: the receiver parses, and queues only what parses
RecvFrom_ParsedOnly(arriving) ==
    /\ recv_pc = "recvfrom"
    /\ Len(received) < MaxRecv
    /\ \E rec \in arriving :
          /\ queue' = IF parse_request(Wire(rec)).kind = "Request"
                      THEN Append(queue, rec) ELSE queue
          /\ received' = Append(received, rec)
    /\ recv_pc' = "while"
    /\ UNCHANGED <<call, construction, config, running, clock, sched_pc, next_run, run_pc,
                   shut_pc, cnt, sent, handled>>

\* mutant of RecvFrom: the datagram goes to the head of the queue
RecvFrom_PutsFirst(arriving) ==
    /\ recv_pc = "recvfrom"
    /\ Len(received) < MaxRecv
    /\ \E rec \in arriving :
          /\ queue' = <<rec>> \o queue
          /\ received' = Append(received, rec)
    /\ recv_pc' = "while"
    /\ UNCHANGED <<call, construction, config, running, clock, sched_pc, next_run, run_pc,
                   shut_pc, cnt, sent, handled>>

\* lines 125-127: recvfrom blocks until a datagram arrives; what it returns
\* is put on the queue as it is.  (Every datagram of the model is shorter
\* than buffer_size.)
RecvFrom(arriving) ==
    /\ recv_pc = "recvfrom"
    /\ Len(received) < MaxRecv
    /\ \E rec \in arriving :
          /\ queue' = Append(queue, rec)
          /\ received' = Append(received, rec)
    /\ recv_pc' = "while"
    /\ UNCHANGED <<call, construction, config, running, clock, sched_pc, next_run, run_pc,
                   shut_pc, cnt, sent, handled>>

(***************************************************************************)
(* run, the dispatcher loop of the main process.                           *)
(***************************************************************************)

\* mutant of IsSearch: every request is answered, whatever its verb
IsSearch_AnyVerb(request) == TRUE

\* line 136: if request.METHOD == b"M-SEARCH"
IsSearch(request) == request.METHOD = M_SEARCH

\* mutant of RunWhile: run arms the flag when it enters its loop
RunWhile_SetsRunning ==
    /\ init_pc = "done"
    /\ run_pc = "while"
    /\ running' = 1
    /\ run_pc' = "get"
    /\ UNCHANGED <<call, construction, config, queue, clock, sched_pc, next_run, recv_pc,
                   shut_pc, cnt, sent, received, handled>>

\* line 133: while self.running.value
RunWhile ==
    /\ init_pc = "done"
    /\ run_pc = "while"
    /\ run_pc' = IF running # 0 THEN "get" ELSE "done"
    /\ UNCHANGED <<call, construction, config, running, queue, clock, sched_pc, next_run, recv_pc,
                   shut_pc, cnt, sent, received, handled>>

\* lines 134-136: queue.get() blocks until there is an element; it is
\* parsed, and a SEARCH request is answered
RunHandle ==
    /\ run_pc = "get"
    /\ queue # <<>>
    /\ queue' = Tail(queue)
    /\ LET rec     == Head(queue)
           request == parse_request(Wire(rec))
           k       == Len(handled) + 1
       IN  CASE request.kind = "ValueError" ->
                  /\ run_pc' = "raised"
                  /\ handled' = Append(handled, [rec |-> rec, end |-> "ValueError"])
                  /\ UNCHANGED <<cnt, sent>>
             [] request.kind = "None" ->
                  /\ run_pc' = "while"
                  /\ handled' = Append(handled, [rec |-> rec, end |-> "None"])
                  /\ UNCHANGED <<cnt, sent>>
             [] request.kind = "Request" /\ ~IsSearch(request) ->
                  /\ run_pc' = "while"
                  /\ handled' = Append(handled, [rec |-> rec, end |-> "ignored"])
                  /\ UNCHANGED <<cnt, sent>>
             [] request.kind = "Request" /\ IsSearch(request) ->
                  LET p == respond_ok(services, request, cnt.main)
                  IN  \E n \in 0..Len(p.sends) :
                         /\ sent' = sent \o Logged(p, n, "response", k, clock)
                         /\ cnt' = [cnt EXCEPT !.main = CounterAfter(p, n)]
                         /\ run_pc' = IF Raises(p, n) THEN "raised" ELSE "while"
                         /\ handled' = Append(handled,
                                [rec |-> rec,
                                 end |-> IF Raises(p, n) THEN "OSError" ELSE "responded"])
    /\ UNCHANGED <<call, construction, config, running, clock, sched_pc, next_run, recv_pc,
                   shut_pc, received>>

(***************************************************************************)
(* shutdown, called once on the main process.                              *)
(***************************************************************************)

\* line 181: self.running.value = 0
ShutdownStop ==
    /\ init_pc = "done"
    /\ shut_pc = "idle"
    /\ running' = 0
    /\ shut_pc' = "join_schedule"
    /\ UNCHANGED <<call, construction, config, queue, clock, sched_pc, next_run, recv_pc, run_pc,
                   cnt, sent, received, handled>>

\* line 182: self.schedule_thread.join()
ShutdownJoinSchedule ==
    /\ shut_pc = "join_schedule"
    /\ Ended(sched_pc)
    /\ shut_pc' = "join_reciever"
    /\ UNCHANGED <<call, construction, config, running, queue, clock, sched_pc, next_run, recv_pc,
                   run_pc, cnt, sent, received, handled>>

\* mutant of ShutdownJoinReciever: shutdown goes on without the receiver
ShutdownJoinReciever_NoJoin ==
    /\ shut_pc = "join_reciever"
    /\ shut_pc' = "notify"
    /\ UNCHANGED <<call, construction, config, running, queue, clock, sched_pc, next_run, recv_pc,
                   run_pc, cnt, sent, received, handled>>

\* line 183: self.reciever_thread.join()
ShutdownJoinReciever ==
    /\ shut_pc = "join_reciever"
    /\ Ended(recv_pc)
    /\ shut_pc' = "notify"
    /\ UNCHANGED <<call, construction, config, running, queue, clock, sched_pc, next_run, recv_pc,
                   run_pc, cnt, sent, received, handled>>

\* line 184: self.do_notify(b"ssdp:goodbye")
ShutdownNotify ==
    /\ shut_pc = "notify"
    /\ IF services.none
       THEN /\ shut_pc' = "raised"
            /\ UNCHANGED <<cnt, sent>>
       ELSE LET p == do_notify(services.descs, SSDP_GOODBYE, cnt.main)
            IN  \E n \in 0..Len(p.sends) :
                   /\ sent' = sent \o Logged(p, n, "goodbye", 0, clock)
                   /\ cnt' = [cnt EXCEPT !.main = CounterAfter(p, n)]
                   /\ shut_pc' = IF Raises(p, n) THEN "raised" ELSE "done"
    /\ UNCHANGED <<call, construction, config, running, queue, clock, sched_pc, next_run, recv_pc,
                   run_pc, received, handled>>

(***************************************************************************)
(* Specifications.                                                         *)
(***************************************************************************)
Scheduler == SchedSleep \/ SchedFirstNotify \/ SchedWhile \/ SchedRunPending
Receiver(arriving) == RecvJoin \/ RecvWhile \/ RecvFrom(arriving)
Dispatcher == RunWhile \/ RunHandle
Shutdown == ShutdownStop \/ ShutdownJoinSchedule \/ ShutdownJoinReciever
            \/ ShutdownNotify

\* The whole responder.  The two specifications after it each follow a part
\* of it; every state they reach is a state of Spec.
Next == Tick \/ Scheduler \/ Receiver(Datagrams) \/ Dispatcher \/ Shutdown

Spec == Init /\ [][Next]_vars

\* the scheduler, the receiver and shutdown against the clock
NextSched == Tick \/ Scheduler \/ Receiver(FewDatagrams) \/ Shutdown

SpecSched == Init /\ [][NextSched]_vars

Construction ==
    setup_sockets \/ Spoofing_setup_sockets \/ InitStartReciever
    \/ InitStartSchedule

\* the whole responder from before its construction on, the time told by
\* the scheduler's wake-ups
NextStart ==
    Construction \/ Advance \/ Scheduler \/ Receiver(FewDatagrams) \/ Dispatcher
    \/ Shutdown

SpecStart == InitStart /\ [][NextStart]_vars

\* Every step of the program's own is taken when it stays possible.  The
\* arrival of a datagram (RecvFrom) and the caller's call of shutdown
\* (ShutdownStop) are the environment's and are not promised.  For a step
\* that sends, weak fairness is stated by the position the step leaves:
\* SchedFirstNotify is possible exactly when the scheduler stands at
\* "notify" and takes it away from there, and so are SchedRunPending at
\* "pending", ShutdownNotify at shutdown's "notify" and RunHandle at "get"
\* with an element on the queue.
Fairness ==
    /\ WF_vars(Construction)
    /\ WF_vars(Advance)
    /\ WF_vars(SchedSleep \/ SchedWhile)
    /\ []<>(sched_pc \notin {"notify", "pending"})
    /\ WF_vars(RecvJoin \/ RecvWhile)
    /\ WF_vars(RunWhile)
    /\ []<>(~(run_pc = "get" /\ queue # <<>>))
    /\ WF_vars(ShutdownJoinSchedule \/ ShutdownJoinReciever)
    /\ []<>(shut_pc # "notify")

SpecLive == SpecStart /\ Fairness

(***************************************************************************)
(* parse_request applied on its own to datagrams put together from a       *)
(* request line and header lines.  A header line is told with the name and *)
(* the value it is written from, so that what the parser returns can be    *)
(* held against what the datagram was made of.                             *)
(***************************************************************************)
\* header lines in one datagram
MaxHeaderLines == 3

HLine(name, value, text) == [name |-> name, value |-> value, text |-> text]

\* a line that is empty but for whitespace carries no header
BlankLine == HLine(<<>>, <<>>, <<" ", "\t">>)

HeaderLines ==
    { HLine(ST, URN_A, ST \o <<":", " ">> \o URN_A),
      HLine(ST, SSDP_ALL, ST \o <<":">> \o SSDP_ALL),
      HLine(MX, <<"1">>, <<" ", " ">> \o MX \o <<":", " ", "\t">> \o <<"1">> \o <<" ">>),
      HLine(ST, <<>>, ST \o <<":">>),
      HLine(<<"H">>, <<"h", ":", "1", " ", "9">>,
            <<"H", ":", " ", "h", ":", "1", " ", "9">>),
      BlankLine }

\* what a datagram may begin with
Verbs ==
    { M_SEARCH, NOTIFY, <<"G", "E", "T">>, HTTP11,
      <<"m", "-", "s", "e", "a", "r", "c", "h">>, <<" ">> \o M_SEARCH }

SeqsUpTo(S, n) == UNION { [1..k -> S] : k \in 0..n }

RECURSIVE Join(_, _)
Join(lines, eol) ==
    IF lines = <<>> THEN <<>>
    ELSE Head(lines).text \o eol \o Join(Tail(lines), eol)

\* the bytes of the datagram: request line, header lines, an empty line
DatagramOf(a) ==
    a.verb \o SP \o <<"*">> \o SP \o HTTP11 \o a.eol
    \o Join(a.lines, a.eol) \o a.eol

InitParse ==
    /\ arg \in [verb : Verbs, eol : {CRLF, LF},
                 lines : SeqsUpTo(HeaderLines, MaxHeaderLines), sender : {Peer1}]
    /\ ret = [kind |-> "pending"]
    /\ variant = Plain
    /\ uid = 1000
    /\ init_pc = "done"
    /\ startup = <<>>
    /\ config = "none"
    /\ running = 1
    /\ queue = <<>>
    /\ clock = 0
    /\ sched_pc = "sleep"
    /\ next_run = 0
    /\ recv_pc = "join"
    /\ run_pc = "while"
    /\ shut_pc = "idle"
    /\ cnt = [main |-> 0, sched |-> 0]
    /\ sent = <<>>
    /\ received = <<>>
    /\ handled = <<>>

\* the state of the responder, which a function applied on its own leaves
responder ==
    <<variant, uid, init_pc, startup, config, running, queue, clock, sched_pc,
      next_run, recv_pc, run_pc, shut_pc, cnt, sent, received, handled>>

\* lines 66-72: parse_request((data, sender))
Parse ==
    /\ ret.kind = "pending"
    /\ ret' = parse_request(Dgram(DatagramOf(arg), arg.sender))
    /\ UNCHANGED <<arg, responder>>

SpecParse == InitParse /\ [][Parse]_vars

(***************************************************************************)
(* create_fmt and respond_ok_static applied on their own to one service    *)
(* descriptor.  arg holds the descriptor's params as the dict stands and   *)
(* as the configuration gave it, its services and the ST values of the     *)
(* request; ret holds what each create_fmt call returned, what each        *)
(* respond_ok_static pass sent, and the producer's counter.                *)
(***************************************************************************)
\* respond_ok_static passes in one run
MaxPasses == 2

\* two producers; st is a param too; usn shows the value of bootid
ParamsB ==
    << Entry("uuid", StrVal(<<"u", "2">>)),
       Entry("bootid", CallVal),
       Entry("configid", CallVal),
       Entry("st", StrVal(<<"u", "r", "n", ":", "p">>)),
       Entry("usn", StrVal(<<"{uuid}", ":", "{bootid}">>)) >>

ParamSets == { ParamsOf(<<"u", "1">>), ParamsB }

\* the second service overrides uuid and usn; the third, like the first,
\* overrides nothing but st
ServicesABA ==
    << <<Entry("st", StrVal(URN_A))>>,
       <<Entry("st", StrVal(URN_B)), Entry("uuid", StrVal(<<"u", "3">>)),
         Entry("usn", StrVal(<<"{st}", "#", "{uuid}">>))>>,
       <<Entry("st", StrVal(URN_A))>> >>

\* the first service overrides the producer param bootid by a literal
ServicesLit ==
    << <<Entry("st", StrVal(URN_B)), Entry("bootid", IntVal(7))>>,
       <<Entry("st", StrVal(URN_A))>> >>

ServiceLists == { << <<Entry("st", StrVal(URN_A))>> >>, ServicesABA, ServicesLit }

STLists == { <<URN_A>>, <<URN_B, SSDP_ALL>>, <<SSDP_ALL>> }

\* the value of header name in a rendered message, <<>> when it has none
HeaderOf(data, name) ==
    LET key    == name \o <<":">>
        starts == { i \in 1..Len(data) :
                      /\ i + Len(key) - 1 <= Len(data)
                      /\ SubSeq(data, i, i + Len(key) - 1) = key
                      /\ (i = 1 \/ data[i - 1] = "\n") }
    IN  IF starts = {} THEN <<>>
        ELSE LET b == (CHOOSE i \in starts : \A j \in starts : i <= j) + Len(key)
                 e == CHOOSE j \in b..(Len(data) + 1) :
                        /\ j = Len(data) + 1 \/ data[j] \in {"\r", "\n"}
                        /\ \A m \in b..(j - 1) : data[m] \notin {"\r", "\n"}
             IN  SubSeq(data, b, e - 1)

InitFmt ==
    /\ \E params \in ParamSets :
          arg \in [params : {params}, given : {params},
                   services : ServiceLists, sts : STLists]
    /\ ret = [fmts |-> <<>>, passes |-> <<>>, cnt |-> 0]
    /\ variant = Plain
    /\ uid = 1000
    /\ init_pc = "done"
    /\ startup = <<>>
    /\ config = "none"
    /\ running = 1
    /\ queue = <<>>
    /\ clock = 0
    /\ sched_pc = "sleep"
    /\ next_run = 0
    /\ recv_pc = "join"
    /\ run_pc = "while"
    /\ shut_pc = "idle"
    /\ cnt = [main |-> 0, sched |-> 0]
    /\ sent = <<>>
    /\ received = <<>>
    /\ handled = <<>>

\* lines 142-158: create_fmt(params, service) for the next service of the
\* descriptor; params is read, never assigned
Resolve ==
    /\ Len(ret.fmts) < Len(arg.services)
    /\ LET i == Len(ret.fmts) + 1
           f == create_fmt(arg.params, arg.services[i], ret.cnt)
       IN  ret' = [ret EXCEPT
                     !.fmts = Append(@, [s |-> i, before |-> ret.cnt,
                                         fmt |-> f.fmt, after |-> f.cnt]),
                     !.cnt = f.cnt]
    /\ UNCHANGED <<arg, responder>>

\* lines 160-172: respond_ok_static(request) over the descriptor, every
\* sendto returning; ret keeps the calls of the pass.
Respond ==
    /\ Len(ret.passes) < MaxPasses
    /\ LET request == [kind |-> "Request", METHOD |-> M_SEARCH,
                       PATH |-> <<"*">>, VERSION |-> HTTP11,
                       HEADERS |-> (ST :> arg.sts), REMOTE |-> Peer1]
           p == respond_ok_static(<<Descriptor(arg.params, arg.services)>>,
                                  request, ret.cnt)
       IN  ret' = [ret EXCEPT !.passes = Append(@, p.sends), !.cnt = p.cnt]
    /\ UNCHANGED <<arg, responder>>

SpecFmt == InitFmt /\ [][Resolve \/ Respond]_vars

\* the receiver and the dispatcher, at a clock that stands still
NextDisp == Receiver(Datagrams) \/ Dispatcher \/ ShutdownStop

SpecDisp == Init /\ [][NextDisp]_vars

(***************************************************************************)
(* Reading the histories.                                                  *)
(***************************************************************************)
\* the sendto calls of one kind, in order
CallsOf(kind) == SelectSeq(sent, LAMBDA e : e.kind = kind)

\* the sendto calls made while answering the k-th datagram taken off the queue
ResponsesTo(k) == SelectSeq(sent, LAMBDA e : e.kind = "response" /\ e.req = k)

\* the (descriptor, service) pairs configured, in order
ConfiguredPairs == ServicePairs(services.descs, 1, 1)

\* the announcement passes of one kind: a pass starts with the call for the
\* first configured service
PassStarts(kind) ==
    SelectSeq(sent, LAMBDA e : e.kind = kind /\ <<e.d, e.s>> = Head(ConfiguredPairs))

IsPrefix(a, b) == Len(a) <= Len(b) /\ a = SubSeq(b, 1, Len(a))

(***************************************************************************)
(* C1.  In every execution of shutdown, the goodbye announcement is        *)
(* multicast only after both background processes, the receiver and the    *)
(* scheduler, have ended: in no reachable state has a goodbye been sent    *)
(* (or is shutdown about to send it) while either of them still runs.      *)
(***************************************************************************)
C1_GoodbyeAfterBothEnded ==
    (CallsOf("goodbye") # <<>> \/ shut_pc \in {"notify", "done", "raised"})
        => (Ended(sched_pc) /\ Ended(recv_pc))

\* shutdown has sent the goodbye after the scheduler left its loop and the
\* receiver came back from a recvfrom and left its loop
C1_Witness ==
    /\ CallsOf("goodbye") # <<>>
    /\ sched_pc = "done"
    /\ recv_pc = "done"
    /\ received # <<>>

(***************************************************************************)
(* C2.  A goodbye is multicast only by shutdown: while shutdown has not    *)
(* reached its do_notify no goodbye has been sent; a shutdown that returns *)
(* has made exactly one goodbye call per configured service, in order      *)
(* (one do_notify pass), and every goodbye goes to the multicast group     *)
(* (address, port).  (The pass of a shutdown that a raising sendto cut     *)
(* short is a prefix of that list.)                                        *)
(***************************************************************************)
C2_GoodbyeOnlyOnShutdown ==
    LET g     == CallsOf("goodbye")
        pairs == [i \in 1..Len(g) |-> <<g[i].d, g[i].s>>]
    IN  /\ shut_pc \in {"idle", "join_schedule", "join_reciever", "notify"} => g = <<>>
        /\ \A i \in 1..Len(g) : g[i].dest = <<"239.255.255.250", 1900>>
        /\ \A i \in 1..Len(g) : g[i].ok \/ i = Len(g)
        /\ IsPrefix(pairs, ConfiguredPairs)
        /\ shut_pc = "done" =>
              /\ pairs = ConfiguredPairs
              /\ Len(g) = CountServices(services.descs)
              /\ \A i \in 1..Len(g) : g[i].ok

\* shutdown has returned after a goodbye pass over three services
C2_Witness ==
    /\ shut_pc = "done"
    /\ Len(CallsOf("goodbye")) = 3

(***************************************************************************)
(* C3.  The scheduler multicasts alive once after the settle delay and     *)
(* then once per announce period: no alive is sent before SettleDelay has  *)
(* passed, any two alive passes lie at least AnnouncePeriod apart (so no   *)
(* two fall in one period), the scheduler enters its loop only after the   *)
(* first pass, and while it loops its job is due exactly one period after  *)
(* the latest pass.                                                        *)
(***************************************************************************)
C3_AliveOncePerPeriod ==
    LET a == CallsOf("alive")
        p == PassStarts("alive")
    IN  /\ \A i \in 1..Len(a) : a[i].at >= SettleDelay
        /\ \A i \in 1..Len(p) : \A j \in 1..Len(p) :
              i < j => p[j].at >= p[i].at + AnnouncePeriod
        /\ Len(p) <= 1 + ((clock - SettleDelay) \div AnnouncePeriod)
        /\ sched_pc \in {"while", "pending", "done"} => p # <<>>
        /\ sched_pc \in {"while", "pending"}
              => next_run = p[Len(p)].at + AnnouncePeriod

\* the first alive pass and one periodic pass have been sent while running
C3_Witness ==
    /\ Len(PassStarts("alive")) = 2
    /\ running = 1
    /\ sched_pc \in {"while", "pending"}

(***************************************************************************)
(* Reading the dispatcher's history.                                       *)
(***************************************************************************)
\* parse_request over every datagram of the model
Parsed == [rec \in Datagrams \cup FewDatagrams |-> parse_request(Wire(rec))]

\* what parse_request made of the k-th datagram taken off the queue
RequestOf(k) == Parsed[handled[k].rec]

\* it parsed into a SEARCH request
IsSearchRequest(k) ==
    /\ RequestOf(k).kind = "Request"
    /\ RequestOf(k).METHOD = <<"M", "-", "S", "E", "A", "R", "C", "H">>

\* the values of its ST headers, in order
STValues(k) == HeadersGet(RequestOf(k).HEADERS, <<"S", "T">>)

\* the st field of service s of descriptor d as create_fmt resolves it
ResolvedSt(d, s) ==
    LET desc == services.descs[d]
    IN  ToStr(DictGet(create_fmt(desc.params, desc.services[s], 0).fmt, "st"))

\* the matching rule as the specification states it
SpecMatch(d, s, value) ==
    \/ StartsWith(value, <<"s", "s", "d", "p", ":">>)
    \/ value = ResolvedSt(d, s)

\* how many calls of r answer value for service s of descriptor d
Answers(r, d, s, value) ==
    Cardinality({i \in 1..Len(r) : r[i].d = d /\ r[i].s = s /\ r[i].st = value})

Occurrences(seq, x) == Cardinality({j \in 1..Len(seq) : seq[j] = x})

Range(seq) == {seq[i] : i \in 1..Len(seq)}

(***************************************************************************)
(* C4.  Search matching: for every configured service and every ST value   *)
(* of a SEARCH request, each checked on its own, a response for that       *)
(* (service, ST value) pair is sent if and only if the value starts with   *)
(* "ssdp:" or equals the service's resolved st; a request with several ST  *)
(* values gets one response per matching pair.  (Stated of a pass whose    *)
(* sendto calls all return; of any pass: every response is for a matching  *)
(* pair.)                                                                  *)
(***************************************************************************)
C4_ResponseIffMatch ==
    \A k \in 1..Len(handled) :
       (IsSearchRequest(k) /\ ~services.none) =>
          LET r   == ResponsesTo(k)
              sts == STValues(k)
          IN  /\ \A i \in 1..Len(r) :
                    /\ <<r[i].d, r[i].s>> \in Range(ConfiguredPairs)
                    /\ r[i].st \in Range(sts)
                    /\ SpecMatch(r[i].d, r[i].s, r[i].st)
              /\ handled[k].end = "responded" =>
                    \A pr \in Range(ConfiguredPairs) : \A value \in Range(sts) :
                       Answers(r, pr[1], pr[2], value) =
                          IF SpecMatch(pr[1], pr[2], value)
                          THEN Occurrences(sts, value) ELSE 0

\* a SEARCH with two ST values has been answered by three services: four
\* of the six pairs match
C4_Witness ==
    \E k \in 1..Len(handled) :
       /\ IsSearchRequest(k)
       /\ handled[k].end = "responded"
       /\ Len(STValues(k)) = 2
       /\ Len(ConfiguredPairs) = 3
       /\ Len(ResponsesTo(k)) = 4

(***************************************************************************)
(* C5.  One descriptor with one service whose st equals the single ST      *)
(* value of a SEARCH request: dispatching the request makes exactly one    *)
(* sendto call, and its destination is the requester's (address, port),    *)
(* the request's REMOTE, never the multicast group.                        *)
(***************************************************************************)
C5_OneUnicastResponse ==
    \A k \in 1..Len(handled) :
       ( /\ ~services.none
         /\ Len(services.descs) = 1
         /\ Len(services.descs[1].services) = 1
         /\ IsSearchRequest(k)
         /\ STValues(k) = <<ResolvedSt(1, 1)>> ) =>
          LET r == ResponsesTo(k)
          IN  /\ Len(r) = 1
              /\ r[1].dest = handled[k].rec.sender
              /\ r[1].dest # <<"239.255.255.250", 1900>>

\* the one-service configuration has answered such a request of the second peer
C5_Witness ==
    \E k \in 1..Len(handled) :
       /\ ~services.none
       /\ Len(services.descs) = 1
       /\ IsSearchRequest(k)
       /\ STValues(k) = <<ResolvedSt(1, 1)>>
       /\ handled[k].rec.sender = <<"192.168.1.21", 50002>>
       /\ Len(ResponsesTo(k)) = 1
       /\ ResponsesTo(k)[1].ok

(***************************************************************************)
(* C6.  A SEARCH request whose single ST value is the generic-discovery    *)
(* token is answered once by every service of every descriptor, whatever   *)
(* its st: the number of responses is the number of Service entries over   *)
(* all descriptors.  (Stated of a pass whose sendto calls all return.)     *)
(***************************************************************************)
C6_GenericAnsweredByAll ==
    \A k \in 1..Len(handled) :
       ( /\ IsSearchRequest(k)
         /\ STValues(k) = << <<"s", "s", "d", "p", ":", "a", "l", "l">> >>
         /\ handled[k].end = "responded" ) =>
          LET r == ResponsesTo(k)
          IN  /\ Len(r) = CountServices(services.descs)
              /\ [i \in 1..Len(r) |-> <<r[i].d, r[i].s>>] = ConfiguredPairs

\* three services, none with st ssdp:all, have each answered ssdp:all
C6_Witness ==
    \E k \in 1..Len(handled) :
       /\ IsSearchRequest(k)
       /\ STValues(k) = <<SSDP_ALL>>
       /\ handled[k].end = "responded"
       /\ Len(ResponsesTo(k)) = 3

(***************************************************************************)
(* C7.  The dispatcher sends nothing for a request that does not match: an *)
(* ANNOUNCE (NOTIFY) request, a SEARCH request without ST header, and a    *)
(* SEARCH request none of whose ST values matches a configured service     *)
(* each cause no sendto call.                                              *)
(***************************************************************************)
NoMatch(k) ==
    \A pr \in Range(ConfiguredPairs) : \A value \in Range(STValues(k)) :
       ~SpecMatch(pr[1], pr[2], value)

C7_NothingSentWithoutMatch ==
    \A k \in 1..Len(handled) :
       ( /\ RequestOf(k).kind = "Request"
         /\ \/ RequestOf(k).METHOD = <<"N", "O", "T", "I", "F", "Y">>
            \/ STValues(k) = <<>>
            \/ NoMatch(k) ) =>
          ResponsesTo(k) = <<>>

\* with services configured, a NOTIFY carrying a matching ST and a SEARCH
\* for an unknown ST have both been dispatched
C7_Witness ==
    /\ ~services.none
    /\ Len(handled) = 2
    /\ RequestOf(1).kind = "Request"
    /\ RequestOf(1).METHOD = NOTIFY
    /\ STValues(1) = <<URN_A>>
    /\ IsSearchRequest(2)
    /\ STValues(2) = <<URN_Z>>

Recognized(data) ==
    \/ StartsWith(data, <<"M", "-", "S", "E", "A", "R", "C", "H">>)
    \/ StartsWith(data, <<"N", "O", "T", "I", "F", "Y">>)

C9_MalformedNeverEndsLoop ==
    \A k \in 1..Len(handled) :
       /\ handled[k].end # "ValueError"
       /\ (k = Len(handled) /\ ResponsesTo(k) = <<>>) => run_pc # "raised"

(***************************************************************************)
(* C10.  A send failure is local to that send: when the sendto for one     *)
(* matching service raises while a SEARCH request is answered, the         *)
(* services after it still get their responses sent and the dispatcher     *)
(* goes on with the next queued request.                                   *)
(***************************************************************************)
C10_SendFailureIsLocal ==
    \A k \in 1..Len(handled) :
       (\E i \in 1..Len(ResponsesTo(k)) : ~ResponsesTo(k)[i].ok) =>
          /\ \A pr \in Range(ConfiguredPairs) : \A value \in Range(STValues(k)) :
                SpecMatch(pr[1], pr[2], value) =>
                   Answers(ResponsesTo(k), pr[1], pr[2], value) >= 1
          /\ (k = Len(handled) => run_pc # "raised")

(***************************************************************************)
(* Reading the history of the startup.                                     *)
(***************************************************************************)
\* the step has been taken, with that outcome
Took(step, ok) == \E i \in 1..Len(startup) : startup[i] = Step(step, ok)

\* a unit (the receiver or the scheduler process) has been started
UnitStarted == recv_pc # "unstarted" \/ sched_pc # "unstarted"

(***************************************************************************)
(* C11.  As the specification has it: every transport acquisition failure  *)
(* (socket bind, group join, raw-socket open, privilege drop) happens       *)
(* during construction, while no unit has been started: no step of the      *)
(* startup history fails after the start of a unit.                         *)
(***************************************************************************)
C11_AcquisitionFailsBeforeUnits ==
    \A i \in 1..Len(startup) :
       ~startup[i].ok =>
          \A j \in 1..(i - 1) :
             startup[j].step \notin {"start_reciever", "start_schedule"}

(***************************************************************************)
(* C12.  As the specification has it: the spoofing variant started as root *)
(* acquires the raw socket, then drops privileges, then starts the units.  *)
(* So a unit is started only with the privileges dropped, and a            *)
(* construction that has ended with the raw socket acquired has dropped    *)
(* them.                                                                   *)
(***************************************************************************)
C12_DropThenStartUnits ==
    (variant = Spoofing /\ (uid = 0 \/ Took("drop_privileges", TRUE))) =>
       /\ UnitStarted => Took("drop_privileges", TRUE)
       /\ (Ended(init_pc) /\ Took("raw_socket", TRUE))
             => Took("drop_privileges", TRUE)

(***************************************************************************)
(* C16.  As the specification has it: once shutdown has been called, the   *)
(* receiver and the scheduler both come to see the stopped flag and end,   *)
(* with no datagram arriving any more.                                     *)
(***************************************************************************)
C16_UnitsEndAfterShutdown ==
    (shut_pc # "idle") ~> (Ended(recv_pc) /\ Ended(sched_pc))

(***************************************************************************)
(* C17.  As the specification has it: an alive announcement is sent only   *)
(* while the flag says running: no step adds an alive call to the log of   *)
(* sendto calls once shutdown has set running.value to 0.                  *)
(***************************************************************************)
C17_AliveOnlyWhileRunning ==
    [][(Len(sent') > Len(sent) /\ sent'[Len(sent')].kind = "alive")
          => running = 1]_vars

(***************************************************************************)
(* C18.  As the specification has it: once shutdown has multicast the      *)
(* goodbye, the dispatcher sends no search response: in the log of sendto  *)
(* calls no response comes after a goodbye.                                *)
(***************************************************************************)
C18_NoResponseAfterGoodbye ==
    \A i \in 1..Len(sent) : \A j \in 1..Len(sent) :
       (i < j /\ sent[i].kind = "goodbye") => sent[j].kind # "response"

(***************************************************************************)
(* C19.  Requests are dispatched one at a time in the order received.  The *)
(* queue is FIFO: what was received is what was taken off the queue, in    *)
(* order, followed by what is still on it.  The responses in the log are   *)
(* grouped by request in the order of the requests, every response belongs *)
(* to a request already taken off the queue, and the responses to one      *)
(* request follow the nesting of the loops: descriptors, then services,    *)
(* then the ST values in the order of the header lines.                    *)
(***************************************************************************)
C19_OneRequestAtATimeInOrder ==
    LET r == CallsOf("response")
        \* a comes no later than b in the nesting of the loops
        Before(a, b) ==
            \/ a.d < b.d
            \/ a.d = b.d /\ a.s < b.s
            \/ a.d = b.d /\ a.s = b.s
    IN  /\ received = [k \in 1..Len(handled) |-> handled[k].rec] \o queue
        /\ \A i \in 1..Len(r) : r[i].req \in 1..Len(handled)
        /\ \A i \in 1..Len(r) : \A j \in 1..Len(r) :
              i < j =>
                 /\ r[i].req <= r[j].req
                 /\ r[i].req = r[j].req => Before(r[i], r[j])
        /\ \A k \in {h \in 1..Len(handled) : IsSearchRequest(h)} :
              \A d \in 1..Len(services.descs) :
                 \A sv \in 1..Len(services.descs[d].services) :
                    LET mine == SelectSeq(ResponsesTo(k),
                                    LAMBDA e : e.d = d /\ e.s = sv)
                        sts  == [i \in 1..Len(mine) |-> mine[i].st]
                        hits == SelectSeq(STValues(k),
                                    LAMBDA v : SpecMatch(d, sv, v))
                    IN  IsPrefix(sts, hits)

\* two requests were answered, the first of them with more than one
\* response, and the second waited on the queue meanwhile
C19_Witness ==
    /\ Len(handled) = 2
    /\ Len(ResponsesTo(1)) >= 2
    /\ Len(ResponsesTo(2)) >= 1
    /\ handled[1].rec # handled[2].rec

(***************************************************************************)
(* C20.  The flag is written twice at most: __init__ creates it with the   *)
(* value 1, and shutdown sets it to 0.  No other step changes it -- the    *)
(* receiver, the scheduler and the dispatcher only read it -- and from 0   *)
(* it never changes again.                                                 *)
(***************************************************************************)
C20_RunStateSingleWriter ==
    [][/\ running' # running =>
             \/ /\ init_pc = "start_reciever"
                /\ running = -1
                /\ running' = 1
             \/ /\ shut_pc = "idle"
                /\ shut_pc' = "join_schedule"
                /\ running' = 0
       /\ running = 0 => running' = 0]_vars

\* shutdown has stopped the flag, and the receiver, the scheduler and the
\* dispatcher have each read it and left their loops
C20_Witness ==
    /\ running = 0
    /\ recv_pc = "done"
    /\ sched_pc = "done"
    /\ run_pc = "done"
    /\ Took("start_schedule", TRUE)

(***************************************************************************)
(* C13.  parse_request returns None for every datagram that does not begin *)
(* with M-SEARCH or NOTIFY.  For a well-formed datagram that does, it      *)
(* returns a Request with the three tokens of the request line and the     *)
(* sender, whose HEADERS has exactly the header names of the datagram and  *)
(* maps each to the list of all its values, trimmed, in the order of the   *)
(* header lines: a repeated name accumulates its values.                   *)
(***************************************************************************)
C13_ParseKeepsRepeatedHeaders ==
    LET named == SelectSeq(arg.lines, LAMBDA l : l.name # <<>>)
        names == {named[i].name : i \in 1..Len(named)}
        of(n) == SelectSeq(named, LAMBDA l : l.name = n)
    IN  ret.kind # "pending" =>
           IF Recognized(DatagramOf(arg))
           THEN /\ ret.kind = "Request"
                /\ ret.METHOD = arg.verb
                /\ ret.PATH = <<"*">>
                /\ ret.VERSION = <<"H", "T", "T", "P", "/", "1", ".", "1">>
                /\ ret.REMOTE = arg.sender
                /\ DOMAIN ret.HEADERS = names
                /\ \A n \in names :
                      ret.HEADERS[n] = [i \in 1..Len(of(n)) |-> of(n)[i].value]
           ELSE ret.kind = "None"

\* parsed: a datagram with bare line feeds whose ST header comes twice with
\* another header between, both ST values kept in order
C13_Witness ==
    /\ ret.kind = "Request"
    /\ arg.eol = <<"\n">>
    /\ Len(arg.lines) = 3
    /\ arg.lines[2].name = <<"M", "X">>
    /\ <<"S", "T">> \in DOMAIN ret.HEADERS
    /\ ret.HEADERS[<<"S", "T">>] = << <<"u", "r", "n", ":", "a">>,
                                      <<"s", "s", "d", "p", ":", "a", "l", "l">> >>
    /\ ret.HEADERS[<<"M", "X">>] = << <<"1">> >>

\* ---- create_fmt (lines 142-158) ----
\* the keys of a dict in insertion order
Keys(d) == [i \in 1..Len(d) |-> d[i].k]

\* how many producers create_fmt invokes before it reaches params[i]
ProducersBefore(params, i) ==
    Cardinality({ j \in 1..(i - 1) : params[j].v.t = "call" })

ProducerCount(params) == ProducersBefore(params, Len(params) + 1)

\* the value of key k before formatting, for a create_fmt call that found
\* the producer's counter at before: the service's value when the service
\* has the key, else the param's value, a producer's being its result
RawValue(params, service, before, k) ==
    IF DictHas(service, k) THEN DictGet(service, k)
    ELSE LET i == CHOOSE j \in 1..Len(params) : params[j].k = k
         IN  IF params[i].v.t = "call"
             THEN IntVal(before + ProducersBefore(params, i) + 1)
             ELSE params[i].v

\* C14: in the mapping create_fmt returns for a service, a key that the
\* service and the params both define carries the service's value, a key of
\* the params alone the param's value, and a key of the service alone the
\* service's; a str value is that value formatted against the mapping.  The
\* params are left as given, so that the override of one service does not
\* show in the mapping of the next.
C14_ServiceOverridesParam ==
    /\ arg.params = arg.given
    /\ \A n \in 1..Len(ret.fmts) :
          LET r       == ret.fmts[n]
              service == arg.services[r.s]
              own     == SelectSeq(Keys(service),
                                   LAMBDA k : ~DictHas(arg.given, k))
          IN  /\ Keys(r.fmt) = Keys(arg.given) \o own
              /\ \A i \in 1..Len(r.fmt) :
                    LET raw == RawValue(arg.given, service, r.before, r.fmt[i].k)
                    IN  r.fmt[i].v = IF raw.t = "str"
                                     THEN StrVal(Format(raw.s, r.fmt))
                                     ELSE raw

\* a service that overrides uuid and usn has been resolved, and after it a
\* service that overrides neither
C14_Witness ==
    /\ Len(ret.fmts) = 3
    /\ DictHas(arg.services[2], "uuid")
    /\ ~DictHas(arg.services[3], "uuid")
    /\ DictGet(ret.fmts[2].fmt, "uuid") = DictGet(arg.services[2], "uuid")
    /\ DictGet(ret.fmts[3].fmt, "uuid") = DictGet(arg.given, "uuid")
    /\ DictGet(ret.fmts[2].fmt, "usn") # DictGet(ret.fmts[3].fmt, "usn")

\* ---- producers (lines 146-147, 164-170) ----
\* the text a producer param k shows in a mapping resolved by a create_fmt
\* call that left the producer's counter at after
Produced(params, after, k) ==
    LET i == CHOOSE j \in 1..Len(params) : params[j].k = k
    IN  Digits(after - ProducerCount(params) + ProducersBefore(params, i) + 1)

\* the producer params a service leaves in place
ProducerKeys(params, service) ==
    { params[i].k : i \in { j \in 1..Len(params) :
                               /\ params[j].v.t = "call"
                               /\ ~DictHas(service, params[j].k) } }

\* the responses of all passes in the order sent, each with its pass
Responses ==
    LET RECURSIVE From(_)
        From(n) ==
            IF n > Len(ret.passes) THEN <<>>
            ELSE [i \in 1..Len(ret.passes[n]) |->
                     [pass |-> n, call |-> ret.passes[n][i]]] \o From(n + 1)
    IN  From(1)

\* C15: every create_fmt call invokes each producer param once, whether or
\* not the service overrides its key; the value produced is the one every
\* field of the mapping and of the message rendered from it shows; and two
\* consecutive create_fmt calls, with a producer that counts upwards, show
\* different values.  (The responses to the several ST values of one
\* request that one service answers are rendered from one create_fmt call,
\* line 164, and show its value.)
C15_ProducersFreshOnEveryResolve ==
    /\ \A n \in 1..Len(ret.fmts) :
          LET r == ret.fmts[n]
          IN  /\ r.after = r.before + ProducerCount(arg.given)
              /\ \A k \in ProducerKeys(arg.given, arg.services[r.s]) :
                    /\ ToStr(DictGet(r.fmt, k)) = Produced(arg.given, r.after, k)
                    /\ n < Len(ret.fmts)
                         /\ k \in ProducerKeys(arg.given, arg.services[ret.fmts[n + 1].s])
                         => DictGet(ret.fmts[n + 1].fmt, k) # DictGet(r.fmt, k)
              /\ arg.given = ParamsB /\ ~DictHas(arg.services[r.s], "usn")
                    /\ ~DictHas(arg.services[r.s], "bootid")
                    => ToStr(DictGet(r.fmt, "usn"))
                         = ToStr(DictGet(r.fmt, "uuid")) \o <<":">>
                           \o Produced(arg.given, r.after, "bootid")
    /\ \A n \in 1..Len(Responses) :
          LET x  == Responses[n]
              sx == arg.services[x.call.s]
              B(c) == HeaderOf(c.data, <<"B">>)
          IN  /\ ~DictHas(sx, "bootid")
                    => B(x.call) = Produced(arg.given, x.call.cnt, "bootid")
              /\ arg.given = ParamsB /\ ~DictHas(sx, "usn") /\ ~DictHas(sx, "bootid")
                    => HeaderOf(x.call.data, <<"U", "S", "N">>)
                         = <<"u", "2", ":">> \o B(x.call)
              /\ n < Len(Responses) =>
                    LET y  == Responses[n + 1]
                        sy == arg.services[y.call.s]
                    IN  ~DictHas(sx, "bootid") /\ ~DictHas(sy, "bootid")
                        => (B(x.call) = B(y.call))
                             = (x.pass = y.pass /\ x.call.s = y.call.s)

\* two passes are done; one service answered two ST values of the request
\* from one create_fmt call and another service answered next to it
C15_Witness ==
    /\ Len(ret.passes) = MaxPasses
    /\ Len(ret.fmts) >= 2
    /\ \E n \in 1..(Len(Responses) - 2) :
          /\ Responses[n].pass = Responses[n + 2].pass
          /\ Responses[n].call.s # Responses[n + 1].call.s
          /\ Responses[n + 1].call.s = Responses[n + 2].call.s
          /\ HeaderOf(Responses[n].call.data, <<"B">>)
               # HeaderOf(Responses[n + 1].call.data, <<"B">>)
====
